---- MODULE Spec2Model ----
(***************************************************************************)
(* Model of crtsh_csv_to_nslookup.py: a CSV column of hostnames is loaded, *)
(* every hostname is queried through a thread pool of external nslookup /  *)
(* dig processes, and the results are written to one report file by the    *)
(* submitting thread in completion order.                                  *)
(*                                                                         *)
(* Text is modelled as a sequence of tokens (a token is an atomic piece of *)
(* text: a character, a literal of an f-string, a formatted number).       *)
(***************************************************************************)
EXTENDS Integers, Sequences, FiniteSets, TLC

\* ------------------------------------------------------------------ bounds
\* Largest number of data rows of the input CSV.
MaxRows == 3
\* Size of the worker pool. The script sets MAX_WORKERS = 12 (line 25); the
\* model scales the pool down so that the loaded hosts can outnumber the
\* workers (MaxRows > MAX_WORKERS) and the pool bound is actually exercised.
MAX_WORKERS == 2

\* ---------------------------------------------------------- configuration
TIMEOUT == 6
NSLOOKUP_TYPE == "-type=TXT"
\* QUERY_CMD is an edit-time setting ("nslookup" or "dig"); any other value
\* makes make_nslookup_cmd raise ValueError. The two valid settings differ
\* only in the argument vector handed to the process, so the runs explored
\* are those of the shipped setting and of an invalid one.
QueryCmds == {"nslookup", "host"}

\* The value Python's None, distinct from every text of the model.
None == <<"<NoneType>">>

\* ------------------------------------------------------------------- text
IsSpace(c) == c \in {" ", "\t", "\n"}

RECURSIVE lstrip(_)
lstrip(s) == IF s # <<>> /\ IsSpace(Head(s)) THEN lstrip(Tail(s)) ELSE s

RECURSIVE rstrip(_)
rstrip(s) ==
    IF s # <<>> /\ IsSpace(s[Len(s)]) THEN rstrip(SubSeq(s, 1, Len(s) - 1)) ELSE s

\* str.strip()
strip(s) == rstrip(lstrip(s))

\* --------------------------------------------------------------- the input
\* Cells of the hostname column: empty, whitespace only, padded, plain.
Cells == {<<>>, <<" ">>, <<" ", "a", " ">>, <<"b">>}
\* The header row of the CSV and the column names a user may ask for.
Fieldnames == <<"Issuer", "CN">>
ColumnNames == {"CN", "Serial"}
\* A data row: the issuer cell alone (a short row) or issuer and hostname.
RowSet == {<<<<"X">>>>} \cup {<<<<"X">>, c>> : c \in Cells}

RECURSIVE SeqsUpTo(_, _)
SeqsUpTo(S, n) ==
    IF n = 0 THEN {<<>>}
    ELSE LET shorter == SeqsUpTo(S, n - 1)
         IN shorter \cup {Append(s, x) : s \in {t \in shorter : Len(t) = n - 1}, x \in S}

\* empty = TRUE is a file without any line: DictReader.fieldnames is None.
CsvFiles ==
    {[empty |-> TRUE, fieldnames |-> <<>>, rows |-> <<>>]}
    \cup {[empty |-> FALSE, fieldnames |-> Fieldnames, rows |-> r] :
            r \in SeqsUpTo(RowSet, MaxRows)}

\* What subprocess.run may do: the process exits (with any exit code), it is
\* killed at the timeout with part of its output captured, or ...
Outcome(kind, rc, stdout, stderr, msg) ==
    [kind |-> kind, rc |-> rc, stdout |-> stdout, stderr |-> stderr, msg |-> msg]
ProcOutcomes ==
    { Outcome("exit", 0, <<"txt", "\n">>, <<>>, ""),
      Outcome("exit", 1, <<>>, <<"err", "\n">>, ""),
      Outcome("timeout", 0, <<"txt">>, <<>>, "") }
\* ... it raises before any process runs (a missing binary).
SpawnError == Outcome("error", 0, <<>>, <<>>, "No such file or directory")
NoOutcome == Outcome("none", 0, <<>>, <<>>, "")

VARIABLES
    argv_len,      \* len(sys.argv)
    csv,           \* the CSV file at csv_path
    column_name,   \* sys.argv[2]
    QUERY_CMD,     \* the configured query command
    out_state,     \* the output path: "absent", "closed" (exists) or "open"
    outfile,       \* the writes the output file holds, oldest first
    pc,            \* position of the main thread
    ri,            \* index of the next CSV row the loader reads
    hosts,         \* main's list hosts
    futures,       \* the futures of the pool, in submission order
    work_queue,    \* the pool's FIFO queue of futures not yet started
    num_threads,   \* worker threads the pool has created
    cur,           \* (hostname, status, output) of the block being written
    printed,       \* what was printed to standard output / error
    exit_code      \* the process exit status, -1 while running

vars == <<argv_len, csv, column_name, QUERY_CMD, out_state, outfile, pc, ri, hosts,
          futures, work_queue, num_threads, cur, printed, exit_code>>

inputs == <<argv_len, csv, column_name, QUERY_CMD>>
pool == <<futures, work_queue, num_threads>>

\* ------------------------------------------------------------ report text
Chunk(text, part, fut, run) == [text |-> text, part |-> part, fut |-> fut, run |-> run]

\* write_header: five writes.
write_header(csv_file, column, total, run) ==
    << Chunk(<<"# csv_nslookup.py results", "\n">>, "header", 0, run),
       Chunk(<<"# source CSV: ", csv_file, "\n">>, "header", 0, run),
       Chunk(<<"# column: ", column, "\n">>, "header", 0, run),
       Chunk(<<"# date: ", "<utcnow>", "Z", "\n">>, "header", 0, run),
       Chunk(<<"# total hosts: ", ToString(total), "\n", "\n">>, "header", 0, run) >>

DelimText(hostname) == <<"--- ">> \o hostname \o <<" ---", "\n">>
SepText == <<"\n", "\n">>

\* The report an earlier run of the program left at the output path.
OldReport ==
    write_header("old.csv", "CN", 1, 0)
    \o << Chunk(DelimText(<<"o">>), "delim", 1, 0),
          Chunk(<<"ERROR: timeout after ", ToString(TIMEOUT), "s">>, "output", 1, 0),
          Chunk(SepText, "sep", 1, 0) >>

\* ------------------------------------------------------------- run_query
Ret(kind, cmd, msg) == [kind |-> kind, cmd |-> cmd, msg |-> msg]

make_nslookup_cmd(query_cmd, host0) ==
    LET host == strip(host0)
    IN IF host = <<>> THEN Ret("none", <<>>, "")
       ELSE IF query_cmd = "nslookup"
            THEN IF NSLOOKUP_TYPE # ""
                 THEN Ret("return", <<<<"nslookup">>, <<NSLOOKUP_TYPE>>, host>>, "")
                 ELSE Ret("return", <<<<"nslookup">>, host>>, "")
       ELSE IF query_cmd = "dig"
            THEN Ret("return", <<<<"dig">>, <<"+short">>, <<"TXT">>, host>>, "")
       ELSE Ret("raise", <<>>, "QUERY_CMD must be 'nslookup' or 'dig'")

Result(kind, hostname, status, output, msg) ==
    [kind |-> kind, hostname |-> hostname, status |-> status, output |-> output,
     msg |-> msg]
NoResult == Result("none", <<>>, "", <<>>, "")

\* The block main is writing: the future as_completed yielded and the
\* (hostname, status, output) bound in the loop body.
Cur(i, hostname, status, output) ==
    [fut |-> i, hostname |-> hostname, status |-> status, output |-> output]
NoCur == Cur(0, <<>>, "", <<>>)

\* Faulty variant: the timeout message carries the output captured so far.
query_output_partial(o) ==
    IF o.kind = "exit"
    THEN <<"RETURN_CODE=", ToString(o.rc), "\n", "STDOUT:", "\n">> \o strip(o.stdout)
         \o <<"\n", "STDERR:", "\n">> \o strip(o.stderr)
    ELSE IF o.kind = "timeout"
    THEN <<"ERROR: timeout after ", ToString(TIMEOUT), "s">> \o strip(o.stdout)
    ELSE <<"ERROR: ", o.msg>>

\* The text run_query builds from what subprocess.run did (lines 46-55).
query_output(o) ==
    IF o.kind = "exit"
    THEN <<"RETURN_CODE=", ToString(o.rc), "\n", "STDOUT:", "\n">> \o strip(o.stdout)
         \o <<"\n", "STDERR:", "\n">> \o strip(o.stderr)
    ELSE IF o.kind = "timeout"
    THEN <<"ERROR: timeout after ", ToString(TIMEOUT), "s">>
    ELSE <<"ERROR: ", o.msg>>

\* A future of the pool with the host it was submitted for (the dict futures
\* of main), what subprocess.run did for it (ran) and what run_query returned
\* or raised (result).
Future(host) ==
    [host |-> host, state |-> "PENDING", proc |-> "none", spawns |-> 0,
     ran |-> NoOutcome, result |-> NoResult, yielded |-> FALSE]

Running == {i \in 1..Len(futures) : futures[i].state = "RUNNING"}
Spawned == {i \in 1..Len(futures) : futures[i].proc = "running"}

\* ------------------------------------------------------------------ Init
Init ==
    /\ argv_len \in {3, 4, 5}
    /\ csv \in CsvFiles
    /\ column_name \in ColumnNames
    /\ QUERY_CMD \in QueryCmds
    /\ \/ out_state = "absent" /\ outfile = <<>>
       \/ out_state = "closed" /\ outfile = OldReport
    /\ pc = "start"
    /\ ri = 1
    /\ hosts = <<>>
    /\ futures = <<>>
    /\ work_queue = <<>>
    /\ num_threads = 0
    /\ cur = NoCur
    /\ printed = <<>>
    /\ exit_code = -1

\* ------------------------------------------------------- the main thread
Exit(code, message) ==
    /\ pc' = "exited"
    /\ exit_code' = code
    /\ printed' = Append(printed, message)

\* Faulty variant: only too few arguments are refused.
bad_arity_too_few(n) == n < 4

\* len(sys.argv) != 4 (line 105).
bad_arity(n) == n # 4

\* if __name__ == "__main__": the arity check (lines 104-108).
EntryPoint ==
    /\ pc = "start"
    /\ IF bad_arity(argv_len)
       THEN Exit(1, "usage")
       ELSE pc' = "open_csv" /\ UNCHANGED <<exit_code, printed>>
    /\ UNCHANGED <<inputs, out_state, outfile, ri, hosts, pool, cur>>

\* Faulty variant: the header is not checked for the column.
has_column_unchecked(fieldnames, column) == TRUE

\* column_name in reader.fieldnames (line 72).
has_column(fieldnames, column) == \E k \in 1..Len(fieldnames) : fieldnames[k] = column

\* main: the CSV is opened and the header row checked (lines 70-74).
CheckColumn ==
    /\ pc = "open_csv"
    /\ IF csv.empty
       THEN Exit(1, "TypeError")
       ELSE IF ~has_column(csv.fieldnames, column_name)
       THEN Exit(2, "column not found")
       ELSE pc' = "read_rows" /\ UNCHANGED <<exit_code, printed>>
    /\ UNCHANGED <<inputs, out_state, outfile, ri, hosts, pool, cur>>

\* DictReader's row as a dict, then row.get(column_name, ""): the last field
\* of that name wins, a field the row is too short for is None (restval).
row_get(fieldnames, row, column) ==
    LET ks == {k \in 1..Len(fieldnames) : fieldnames[k] = column}
    IN IF ks = {} THEN <<>>
       ELSE LET k == CHOOSE x \in ks : \A y \in ks : y <= x
            IN IF k <= Len(row) THEN row[k] ELSE None

\* Faulty variant: the value is tested trimmed but stored as read.
load_value_raw(hs, raw) == IF strip(raw) # <<>> THEN Append(hs, raw) ELSE hs

\* Faulty variant: the trimmed value is stored without the emptiness test.
load_value_unfiltered(hs, raw) == Append(hs, strip(raw))

\* Faulty variant: a hostname already loaded is not loaded again.
load_value_dedup(hs, raw) ==
    LET value == strip(raw)
    IN IF value # <<>> /\ \A k \in 1..Len(hs) : hs[k] # value THEN Append(hs, value)
       ELSE hs

\* hosts after one row's value (lines 76-78).
load_value(hs, raw) ==
    LET value == strip(raw) IN IF value # <<>> THEN Append(hs, value) ELSE hs

\* main: one iteration of the loop over the rows (lines 75-78); the with
\* block of the CSV ends after the last row.
ReadRow ==
    /\ pc = "read_rows"
    /\ IF ri > Len(csv.rows)
       THEN /\ pc' = "check_hosts"
            /\ UNCHANGED <<ri, hosts, exit_code, printed>>
       ELSE LET raw == row_get(csv.fieldnames, csv.rows[ri], column_name)
            IN IF raw = None
               THEN Exit(1, "AttributeError") /\ UNCHANGED <<ri, hosts>>
               ELSE /\ hosts' = load_value(hosts, raw)
                    /\ ri' = ri + 1
                    /\ UNCHANGED <<pc, exit_code, printed>>
    /\ UNCHANGED <<inputs, out_state, outfile, pool, cur>>

\* main: if not hosts: return (lines 80-82).
CheckHosts ==
    /\ pc = "check_hosts"
    /\ IF hosts = <<>>
       THEN Exit(0, "No hosts found")
       ELSE pc' = "open_out" /\ UNCHANGED <<exit_code, printed>>
    /\ UNCHANGED <<inputs, out_state, outfile, ri, hosts, pool, cur>>

\* Faulty variant: the output is opened for appending.
OpenOut_append ==
    /\ pc = "open_out"
    /\ out_state' = "open"
    /\ pc' = "write_header"
    /\ UNCHANGED <<inputs, outfile, ri, hosts, pool, cur, printed, exit_code>>

\* main: out_path.open("w") creates or truncates the file (line 84).
OpenOut ==
    /\ pc = "open_out"
    /\ out_state' = "open"
    /\ outfile' = <<>>
    /\ pc' = "write_header"
    /\ UNCHANGED <<inputs, ri, hosts, pool, cur, printed, exit_code>>

\* Faulty variant: the header is not written before the pool starts.
WriteHeader_skipped ==
    /\ pc = "write_header"
    /\ pc' = "submit"
    /\ UNCHANGED <<inputs, out_state, outfile, ri, hosts, pool, cur, printed, exit_code>>

\* main: write_header(...), then the pool is created (lines 85-88).
WriteHeader ==
    /\ pc = "write_header"
    /\ outfile' = outfile \o write_header("input.csv", column_name, Len(hosts), 1)
    /\ pc' = "submit"
    /\ UNCHANGED <<inputs, out_state, ri, hosts, pool, cur, printed, exit_code>>

\* Faulty variant: every submit starts a thread of its own.
adjust_thread_count_unbounded(n) == n + 1

\* ThreadPoolExecutor(max_workers=MAX_WORKERS) (line 88): a submit starts a
\* new worker thread only while the pool has fewer than max_workers.
adjust_thread_count(n) == IF n < MAX_WORKERS THEN n + 1 ELSE n

\* Faulty variant: the pool stage consumes the host list as it submits.
Submit_consumes ==
    /\ pc = "submit"
    /\ futures' = Append(futures, Future(Head(hosts)))
    /\ hosts' = Tail(hosts)
    /\ work_queue' = Append(work_queue, Len(futures) + 1)
    /\ num_threads' = IF num_threads < MAX_WORKERS THEN num_threads + 1 ELSE num_threads
    /\ pc' = IF Tail(hosts) = <<>> THEN "collect" ELSE "submit"
    /\ UNCHANGED <<inputs, out_state, outfile, ri, cur, printed, exit_code>>

\* main: ex.submit(run_query, h) for the next host (line 89). The pool queues
\* the work item and starts a worker thread while it has fewer than
\* max_workers of them.
Submit ==
    /\ pc = "submit"
    /\ LET i == Len(futures) + 1
       IN /\ futures' = Append(futures, Future(hosts[i]))
          /\ work_queue' = Append(work_queue, i)
          /\ num_threads' = adjust_thread_count(num_threads)
          /\ pc' = IF i = Len(hosts) THEN "collect" ELSE "submit"
    /\ UNCHANGED <<inputs, out_state, outfile, ri, hosts, cur, printed, exit_code>>

\* fut.result() with main's except clause (lines 91-97); f.host is
\* futures[fut].
collect_result(i, f) ==
    IF f.result.kind = "exception"
    THEN Cur(i, f.host, "EXC", <<"ERROR: ", f.result.msg>>)
    ELSE Cur(i, f.result.hostname, f.result.status, f.result.output)

\* Faulty variant: main reports only the futures that are finished when it looks.
pending_finished ==
    {i \in 1..Len(futures) : futures[i].state = "FINISHED" /\ ~futures[i].yielded}

\* The futures as_completed(futures) has still to yield (line 90).
pending_futures == {i \in 1..Len(futures) : ~futures[i].yielded}

\* Faulty variant: fut.result() is called outside any try, so an exception raised in
\* the worker ends the program.
Collect_nocatch(i) ==
    /\ pc = "collect"
    /\ i \in {k \in 1..Len(futures) : ~futures[k].yielded}
    /\ futures[i].state = "FINISHED"
    /\ futures' = [futures EXCEPT ![i].yielded = TRUE]
    /\ IF futures[i].result.kind = "exception"
       THEN Exit(1, "Traceback") /\ UNCHANGED cur
       ELSE /\ cur' = Cur(i, futures[i].result.hostname, futures[i].result.status,
                         futures[i].result.output)
            /\ pc' = "write_delim"
            /\ UNCHANGED <<printed, exit_code>>
    /\ UNCHANGED <<inputs, out_state, outfile, ri, hosts, work_queue, num_threads>>

\* Faulty variant: main takes the results in submission order, waiting for
\* the oldest future not yet reported.
Collect_in_order(i) ==
    /\ pc = "collect"
    /\ ~futures[i].yielded
    /\ \A k \in 1..(i - 1) : futures[k].yielded
    /\ futures[i].state = "FINISHED"
    /\ futures' = [futures EXCEPT ![i].yielded = TRUE]
    /\ cur' = collect_result(i, futures[i])
    /\ pc' = "write_delim"
    /\ UNCHANGED <<inputs, out_state, outfile, ri, hosts, work_queue, num_threads,
                   printed, exit_code>>

\* main: as_completed yields a finished future (lines 90-97).
Collect(i) ==
    /\ pc = "collect"
    /\ i \in pending_futures
    /\ futures[i].state = "FINISHED"
    /\ futures' = [futures EXCEPT ![i].yielded = TRUE]
    /\ cur' = collect_result(i, futures[i])
    /\ pc' = "write_delim"
    /\ UNCHANGED <<inputs, out_state, outfile, ri, hosts, work_queue, num_threads,
                   printed, exit_code>>

\* outfh.write(text) by the main thread.
Write(text, part, next) ==
    /\ out_state = "open"
    /\ outfile' = Append(outfile, Chunk(text, part, cur.fut, 1))
    /\ pc' = next
    /\ UNCHANGED <<inputs, out_state, ri, hosts, pool, printed, exit_code>>

\* main: outfh.write(f"--- {hostname} ---\n") (line 98).
WriteDelim ==
    /\ pc = "write_delim"
    /\ Write(DelimText(cur.hostname), "delim", "write_output")
    /\ UNCHANGED cur

\* main: outfh.write(output) (line 99).
WriteOutput ==
    /\ pc = "write_output"
    /\ Write(cur.output, "output", "write_sep")
    /\ UNCHANGED cur

\* main: outfh.write("\n\n") (line 100), then the next turn of the loop.
WriteSep ==
    /\ pc = "write_sep"
    /\ Write(SepText, "sep",
             IF pending_futures = {} THEN "finish" ELSE "collect")
    /\ cur' = NoCur

\* main: both with blocks end (pool shut down, file closed), "Done" is
\* printed and main returns (lines 88, 84, 102).
Finish ==
    /\ pc = "finish"
    /\ out_state' = "closed"
    /\ Exit(0, "Done")
    /\ UNCHANGED <<inputs, outfile, ri, hosts, pool, cur>>

\* ----------------------------------------------------- the worker threads
\* The value run_query returns after subprocess.run (lines 47-56).
run_query_result(host, o) == Result("value", host, "OK", query_output(o), "")

\* Faulty variant: when the command cannot be built the worker neither
\* returns nor raises, so its future is never finished.
run_query_start_lost(query_cmd, f, spawn_ok) ==
    LET cmd == make_nslookup_cmd(query_cmd, f.host)
    IN IF cmd.kind = "raise"
       THEN [f EXCEPT !.state = "RUNNING"]
       ELSE IF cmd.kind = "none"
       THEN [f EXCEPT !.state = "FINISHED",
                      !.result = Result("value", f.host, "EMPTY_HOSTNAME", <<>>, "")]
       ELSE IF ~spawn_ok
       THEN [f EXCEPT !.state = "FINISHED", !.ran = SpawnError,
                      !.result = Result("value", f.host, "OK", query_output(SpawnError), "")]
       ELSE [f EXCEPT !.state = "RUNNING", !.proc = "running", !.spawns = @ + 1]

\* run_query up to subprocess.run (lines 42-47): the command is built and
\* the process spawned. spawn_ok = FALSE is a spawn that fails (a missing
\* binary), caught by run_query's except clause (lines 54-56).
run_query_start(query_cmd, f, spawn_ok) ==
    LET cmd == make_nslookup_cmd(query_cmd, f.host)
    IN IF cmd.kind = "raise"
       THEN [f EXCEPT !.state = "FINISHED",
                      !.result = Result("exception", <<>>, "", <<>>, cmd.msg)]
       ELSE IF cmd.kind = "none"
       THEN [f EXCEPT !.state = "FINISHED",
                      !.result = Result("value", f.host, "EMPTY_HOSTNAME", <<>>, "")]
       ELSE IF ~spawn_ok
       THEN [f EXCEPT !.state = "FINISHED", !.ran = SpawnError,
                      !.result = run_query_result(f.host, SpawnError)]
       ELSE [f EXCEPT !.state = "RUNNING", !.proc = "running", !.spawns = @ + 1]

\* A worker thread takes the oldest queued future and calls run_query.
WorkerStart(spawn_ok) ==
    /\ work_queue # <<>>
    /\ Cardinality(Running) < num_threads
    /\ LET i == Head(work_queue)
       IN /\ work_queue' = Tail(work_queue)
          /\ futures' = [futures EXCEPT ![i] = run_query_start(QUERY_CMD, @, spawn_ok)]
    /\ UNCHANGED <<inputs, out_state, outfile, pc, ri, hosts, num_threads, cur,
                   printed, exit_code>>

\* Faulty variant: a query that timed out is run once more.
WorkerFinish_retry(i, o) ==
    /\ futures[i].state = "RUNNING"
    /\ futures' = [futures EXCEPT ![i] =
                     IF o.kind = "timeout" /\ futures[i].spawns < 2
                     THEN [@ EXCEPT !.spawns = @ + 1]
                     ELSE [@ EXCEPT !.state = "FINISHED", !.proc = "exited", !.ran = o,
                                    !.result = Result("value", futures[i].host, "OK",
                                                      query_output(o), "")]]
    /\ UNCHANGED <<inputs, out_state, outfile, pc, ri, hosts, work_queue, num_threads,
                   cur, printed, exit_code>>

\* Faulty variant: the worker writes the delimiter line of its host itself.
WorkerFinish_writes(i, o) ==
    /\ futures[i].state = "RUNNING"
    /\ futures' = [futures EXCEPT ![i] =
                     [@ EXCEPT !.state = "FINISHED", !.proc = "exited", !.ran = o,
                               !.result = Result("value", futures[i].host, "OK",
                                                 query_output(o), "")]]
    /\ outfile' = IF out_state = "open"
                  THEN Append(outfile, Chunk(DelimText(futures[i].host), "delim", i, 1))
                  ELSE outfile
    /\ UNCHANGED <<inputs, out_state, pc, ri, hosts, work_queue, num_threads,
                   cur, printed, exit_code>>

\* The process of future i exits or is killed at the timeout; run_query
\* returns and the future is finished.
WorkerFinish(i, o) ==
    /\ futures[i].state = "RUNNING"
    /\ futures[i].proc = "running"
    /\ futures' = [futures EXCEPT ![i] =
                     [@ EXCEPT !.state = "FINISHED", !.proc = "exited", !.ran = o,
                               !.result = run_query_result(futures[i].host, o)]]
    /\ UNCHANGED <<inputs, out_state, outfile, pc, ri, hosts, work_queue, num_threads,
                   cur, printed, exit_code>>

Next ==
    \/ EntryPoint
    \/ CheckColumn
    \/ ReadRow
    \/ CheckHosts
    \/ OpenOut
    \/ WriteHeader
    \/ Submit
    \/ \E i \in 1..Len(futures) : Collect(i)
    \/ WriteDelim
    \/ WriteOutput
    \/ WriteSep
    \/ Finish
    \/ \E spawn_ok \in BOOLEAN : WorkerStart(spawn_ok)
    \/ \E i \in 1..Len(futures), o \in ProcOutcomes : WorkerFinish(i, o)

Spec == Init /\ [][Next]_vars

\* The run under fair scheduling: the main thread and the worker threads keep
\* being scheduled, and every spawned process exits or is killed at the
\* timeout, so a step that can be taken is eventually taken.
SpecLive == Init /\ [][Next]_vars /\ WF_vars(Next)

\* A run against an output path at which an earlier run left its report.
InitRerun == Init /\ out_state = "closed"
SpecRerun == InitRerun /\ [][Next]_vars

\* =================================================== reading the report
\* The writes of this run (a report left by an earlier run is tagged run 0).
ThisRun == {j \in 1..Len(outfile) : outfile[j].run = 1}

\* A write is the delimiter line of a block: "--- <host> ---".
IsDelim(ch) ==
    /\ Len(ch.text) >= 3
    /\ ch.text[1] = "--- "
    /\ ch.text[Len(ch.text) - 1] = " ---"
HostOf(ch) == SubSeq(ch.text, 2, Len(ch.text) - 2)
Delims == {j \in ThisRun : IsDelim(outfile[j])}

\* A write is the header's "# total hosts: <n>" line.
IsTotal(ch) == Len(ch.text) >= 2 /\ ch.text[1] = "# total hosts: "
Totals == {j \in ThisRun : IsTotal(outfile[j])}

\* The rows of the input whose value in the column is non-empty after trimming.
ColumnValue(k) == row_get(csv.fieldnames, csv.rows[k], column_name)
NonEmptyRows ==
    {k \in 1..Len(csv.rows) : ColumnValue(k) # None /\ strip(ColumnValue(k)) # <<>>}
InputHosts == {strip(ColumnValue(k)) : k \in NonEmptyRows}

\* main returned normally.
Returned == pc = "exited" /\ exit_code = 0

\* ------------------------------------------------------------------ C1
\* C1: when main() finishes, the number of report blocks written equals the
\* number of rows whose value in the column is non-empty after trimming, each
\* such row having a block of its own (a hostname on k rows has k blocks), and
\* the header's "total hosts" is that same number.
C1_BlocksEqualNonEmptyRows ==
    Returned =>
        LET n == Cardinality(NonEmptyRows)
        IN /\ Cardinality(Delims) = n
           /\ \A h \in InputHosts :
                Cardinality({j \in Delims : HostOf(outfile[j]) = h})
                  = Cardinality({k \in NonEmptyRows : strip(ColumnValue(k)) = h})
           /\ \A j \in Totals : outfile[j].text[2] = ToString(n)
           /\ n > 0 => Cardinality(Totals) = 1

\* A finished run over three rows: one blank, two naming the same host.
C1_Witness ==
    /\ Returned
    /\ Len(csv.rows) = 3
    /\ Cardinality(NonEmptyRows) = 2
    /\ Cardinality(InputHosts) = 1
    /\ Cardinality(Delims) = 2

\* ------------------------------------------------------------------ C2
\* C2: whatever the completion order, the set of hostnames named in the
\* report blocks of the finished output is the set of non-empty trimmed values
\* of the input column.
C2_HostSetPreserved ==
    Returned => {HostOf(outfile[j]) : j \in Delims} = InputHosts

\* A finished run whose blocks are not in submission order.
C2_Witness ==
    /\ Returned
    /\ Cardinality(InputHosts) = 2
    /\ \E j, k \in Delims : j < k /\ outfile[j].fut > outfile[k].fut

\* ------------------------------------------------------------------ C3
\* The output path is as it was before the run: never opened or written.
OutputUntouched ==
    \/ out_state = "absent" /\ outfile = <<>>
    \/ out_state = "closed" /\ outfile = OldReport

\* C3: when the requested column is absent from the CSV header, main() exits
\* with status 2; the output path is never opened, truncated or written and
\* no query is submitted or spawned.
C3_AbsentColumnExits2 ==
    (argv_len = 4 /\ ~csv.empty
        /\ \A k \in 1..Len(csv.fieldnames) : csv.fieldnames[k] # column_name)
    => /\ pc \in {"start", "open_csv", "exited"}
       /\ pc = "exited" => exit_code = 2
       /\ OutputUntouched
       /\ futures = <<>> /\ work_queue = <<>> /\ num_threads = 0

\* The column is absent, the CSV has hosts and an older report exists.
C3_Witness ==
    /\ pc = "exited" /\ exit_code = 2
    /\ column_name = "Serial"
    /\ out_state = "closed"
    /\ \E k \in 1..Len(csv.rows) : Len(csv.rows[k]) = 2 /\ strip(csv.rows[k][2]) # <<>>

\* ------------------------------------------------------------------ C4
TimeoutMarker == <<"ERROR: timeout after ", "6", "s">>
Tokens(text) == {text[k] : k \in 1..Len(text)}
SectionTokens == {"RETURN_CODE=", "STDOUT:", "STDERR:"}
TimedOut == {i \in 1..Len(futures) : futures[i].ran.kind = "timeout"}

\* C4: a query that exceeds TIMEOUT makes run_query return the timeout marker
\* alone, and nothing written for that host holds a RETURN_CODE, STDOUT or
\* STDERR section or any of the output captured before the timeout.
C4_TimeoutMarkerOnly ==
    \A i \in TimedOut :
        /\ futures[i].result.kind = "value"
        /\ futures[i].result.output = TimeoutMarker
        /\ \A j \in ThisRun :
             outfile[j].fut = i =>
               /\ outfile[j].part = "output" => outfile[j].text = TimeoutMarker
               /\ Tokens(outfile[j].text) \cap
                    (SectionTokens \cup Tokens(futures[i].ran.stdout)
                       \cup Tokens(futures[i].ran.stderr)) = {}

\* The block of a timed-out query, which had captured output, is complete.
C4_Witness ==
    \E i \in TimedOut :
        /\ futures[i].ran.stdout # <<>>
        /\ \E j \in ThisRun : outfile[j].fut = i /\ outfile[j].part = "sep"

\* ------------------------------------------------------------------ C5
\* Every write the file holds is of this run, its header first.
OnlyThisRun ==
    /\ \A j \in 1..Len(outfile) : outfile[j].run = 1
    /\ Len(outfile) = 5 + 3 * Len(hosts)
    /\ Cardinality(Totals) = 1
    /\ \A j \in Totals : outfile[j].text[2] = ToString(Cardinality(NonEmptyRows))

\* C5 as stated: after any run with a valid column over an existing report,
\* the file holds only this run's header and blocks.
C5_AlwaysOverwrites == Returned => OnlyThisRun

\* C5 as amended: a run that loads at least one host replaces the earlier
\* report by its own header and blocks; a run that loads no host leaves the
\* earlier report as it was.
C5_OverwritesWhenHostsLoaded ==
    Returned =>
        IF NonEmptyRows # {} THEN OnlyThisRun
        ELSE out_state = "closed" /\ outfile = OldReport

\* A finished run with two hosts over the earlier one-host report.
C5_Witness ==
    /\ Returned
    /\ Cardinality(NonEmptyRows) = 2
    /\ Len(outfile) = 11

\* ------------------------------------------------------------------ C6
\* C6: at most MAX_WORKERS external processes (and queries) run at once, and
\* the hosts still queued have no process and have not started.
C6_AtMostMaxWorkers ==
    /\ Cardinality(Spawned) <= MAX_WORKERS
    /\ Cardinality(Running) <= MAX_WORKERS
    /\ \A k \in 1..Len(work_queue) :
         /\ futures[work_queue[k]].state = "PENDING"
         /\ futures[work_queue[k]].proc = "none"

\* The pool is full and a host is waiting.
C6_Witness ==
    /\ Cardinality(Spawned) = MAX_WORKERS
    /\ work_queue # <<>>

\* ------------------------------------------------------------------ C7
\* The text a host's block must hold, given what happened to its own query.
OwnOutputOk(i, text) ==
    LET f == futures[i]
    IN IF f.ran.kind = "exit"
       THEN /\ Len(text) >= 2
            /\ text[1] = "RETURN_CODE=" /\ text[2] = ToString(f.ran.rc)
            /\ Tokens(strip(f.ran.stdout)) \cup Tokens(strip(f.ran.stderr))
                 \subseteq Tokens(text)
       ELSE IF f.ran.kind = "timeout" THEN text = TimeoutMarker
       ELSE IF f.ran.kind = "error" THEN text = <<"ERROR: ", f.ran.msg>>
       ELSE text = <<"ERROR: ", "QUERY_CMD must be 'nslookup' or 'dig'">>

Failed(i) ==
    \/ futures[i].ran.kind \in {"timeout", "error"}
    \/ futures[i].ran.kind = "exit" /\ futures[i].ran.rc # 0
    \/ futures[i].result.kind = "exception"

\* C7: no per-host failure aborts the run. Once the report is open the run
\* ends only by main returning with status 0 and nothing but "Done" printed,
\* and then every loaded host has exactly one block, naming it and holding the
\* text of its own result.
C7_FailuresIsolated ==
    /\ (out_state = "open" \/ futures # <<>>) =>
          /\ exit_code \in {-1, 0}
          /\ pc = "exited" <=> out_state = "closed"
    /\ (Returned /\ hosts # <<>>) =>
          /\ printed = <<"Done">>
          /\ Len(futures) = Len(hosts)
          /\ \A i \in 1..Len(hosts) :
               /\ Cardinality({j \in Delims : outfile[j].fut = i}) = 1
               /\ \A j \in Delims : outfile[j].fut = i => HostOf(outfile[j]) = hosts[i]
               /\ Cardinality({j \in ThisRun : outfile[j].fut = i
                                 /\ outfile[j].part = "output"}) = 1
               /\ \A j \in ThisRun :
                    (outfile[j].fut = i /\ outfile[j].part = "output")
                      => OwnOutputOk(i, outfile[j].text)

\* A finished run in which one query timed out, one could not be spawned and
\* one succeeded.
C7_Witness ==
    /\ Returned
    /\ \E i, j, k \in 1..Len(futures) :
         /\ futures[i].ran.kind = "timeout"
         /\ futures[j].ran.kind = "error"
         /\ futures[k].ran.kind = "exit" /\ futures[k].ran.rc = 0

\* ------------------------------------------------------------------ C8
HeaderPrefixes ==
    <<"# csv_nslookup.py results", "# source CSV: ", "# column: ", "# date: ",
      "# total hosts: ">>
IsHeaderLine(ch) == \E k \in 1..5 : ch.text # <<>> /\ ch.text[1] = HeaderPrefixes[k]

\* C8: in a run that writes a report the header is written once and before
\* any block: whenever this run has written anything but header lines, the
\* first five writes are the five header lines and no later write is one.
C8_HeaderOnceFirst ==
    /\ \A j \in 1..Len(outfile) :
         outfile[j].run = 1 =>
            IF j <= 5 THEN outfile[j].text[1] = HeaderPrefixes[j]
            ELSE outfile[j].text = <<>> \/ outfile[j].text[1] \notin Tokens(HeaderPrefixes)
    /\ pc \in {"submit", "collect", "write_delim", "write_output", "write_sep", "finish"}
         => Len(outfile) >= 5 /\ outfile[1].run = 1

\* A finished report with two blocks after its header.
C8_Witness ==
    /\ Returned
    /\ Cardinality(Delims) = 2
    /\ IsHeaderLine(outfile[1]) /\ IsDelim(outfile[6])

\* ------------------------------------------------------------------ C9
\* C9: the three writes of a block are adjacent in the file and follow one
\* another in order (delimiter, output, separator), all for one future: a
\* delimiter line follows the header or a complete block, an output follows
\* the delimiter line of its own future and a separator the output of its own
\* future, so no write of another block lies between them.
C9_BlockWritesContiguous ==
    \A j \in 1..Len(outfile) :
        LET c == outfile[j]
            before == IF j > 1 THEN outfile[j - 1] ELSE c
        IN (c.run = 1 /\ c.part # "header") =>
             /\ j > 5 /\ before.run = 1
             /\ c.part = "delim" =>
                  /\ before.part \in {"header", "sep"}
                  /\ IsDelim(c)
             /\ c.part = "output" =>
                  /\ before.part = "delim" /\ before.fut = c.fut
                  /\ ~IsDelim(c) /\ c.text # SepText
             /\ c.part = "sep" =>
                  /\ before.part = "output" /\ before.fut = c.fut
                  /\ c.text = SepText

\* Main is in the middle of a block while one query has finished and waits
\* to be reported and another is still running.
C9_Witness ==
    /\ pc = "write_output"
    /\ \E i, k \in 1..Len(futures) :
         /\ i # cur.fut /\ futures[i].state = "FINISHED" /\ ~futures[i].yielded
         /\ futures[k].state = "RUNNING"

\* ----------------------------------------------------------------- C10
\* C10: with a number of positional arguments other than three the program
\* prints usage and exits with status 1 without entering main(): the CSV is
\* not read, nothing is submitted and the output path is untouched.
C10_BadArityExits1 ==
    argv_len # 4 =>
        /\ pc \in {"start", "exited"}
        /\ pc = "exited" => exit_code = 1 /\ printed = <<"usage">>
        /\ ri = 1 /\ hosts = <<>>
        /\ futures = <<>> /\ work_queue = <<>> /\ num_threads = 0
        /\ OutputUntouched

\* Too many arguments, a CSV with hosts, an older report: exit 1.
C10_Witness ==
    /\ argv_len = 5
    /\ pc = "exited" /\ exit_code = 1
    /\ NonEmptyRows # {}
    /\ column_name = "CN"
    /\ out_state = "closed"

\* ----------------------------------------------------------------- C11
\* C11: there are no retries. The futures are the loaded host entries, one
\* future per entry in order; a future is in the work queue only before it
\* starts and never twice, and whatever its query's outcome it has spawned at
\* most one external process: one when a process ran, none otherwise.
C11_NoRetries ==
    /\ Len(futures) <= Len(hosts)
    /\ \A i \in 1..Len(futures) :
         /\ futures[i].host = hosts[i]
         /\ futures[i].spawns <= 1
         /\ futures[i].spawns = 1 <=> futures[i].proc # "none"
         /\ futures[i].state = "FINISHED" =>
              \A k \in 1..Len(work_queue) : work_queue[k] # i
    /\ \A k, m \in 1..Len(work_queue) : work_queue[k] = work_queue[m] => k = m
    /\ Returned /\ hosts # <<>> => Len(futures) = Len(hosts)

\* A finished run in which one query timed out, one exited with a non-zero
\* status and one could not be spawned.
C11_Witness ==
    /\ Returned
    /\ \E i, j, k \in 1..Len(futures) :
         /\ futures[i].ran.kind = "timeout" /\ futures[i].spawns = 1
         /\ futures[j].ran.kind = "exit" /\ futures[j].ran.rc = 1
         /\ futures[k].ran.kind = "error" /\ futures[k].spawns = 0

\* ----------------------------------------------------------------- C12
\* The trimmed, non-empty values of the column in the first n rows, in row
\* order.
RECURSIVE HostsUpTo(_)
HostsUpTo(n) ==
    IF n = 0 THEN <<>>
    ELSE LET v == ColumnValue(n)
         IN IF v = None \/ strip(v) = <<>> THEN HostsUpTo(n - 1)
            ELSE Append(HostsUpTo(n - 1), strip(v))

LoaderStages == {"start", "open_csv", "read_rows", "check_hosts"}
PoolStages == {"submit", "collect", "write_delim", "write_output", "write_sep", "finish"}

\* C12: the stages form a strict forward pipeline. While the loader runs the
\* output path is untouched and nothing is submitted; once the output is open
\* or a query is submitted the loader has read every row, main never is in a
\* loader stage again, and the host list is, and stays, the list loaded from
\* the whole CSV.
C12_StrictPipeline ==
    /\ pc \in LoaderStages =>
         /\ OutputUntouched
         /\ futures = <<>> /\ work_queue = <<>> /\ num_threads = 0
    /\ (out_state = "open" \/ futures # <<>>) =>
         /\ pc \notin LoaderStages
         /\ ri = Len(csv.rows) + 1
         /\ hosts = HostsUpTo(ri - 1)
    /\ futures # <<>> =>
         /\ pc \in PoolStages \cup {"exited"}
         /\ Len(outfile) >= 5

\* Queries are running while main still submits, after a three-row CSV with a
\* blank row was loaded.
C12_Witness ==
    /\ pc = "submit"
    /\ Running # {}
    /\ Len(csv.rows) = 3 /\ Len(hosts) = 2

\* ----------------------------------------------------------------- C13
\* C13: results are written in completion order. Every write of a block, and
\* the block main is busy with, belongs to a future whose query has finished;
\* and whenever main waits for the next result, any finished future not yet
\* reported can be reported at once, whatever earlier-submitted futures are
\* still queued or running.
C13_CompletionOrder ==
    /\ \A j \in 1..Len(outfile) :
         (outfile[j].run = 1 /\ outfile[j].part # "header") =>
            futures[outfile[j].fut].state = "FINISHED"
    /\ cur.fut # 0 => futures[cur.fut].state = "FINISHED"
    /\ pc = "collect" =>
         \A i \in 1..Len(futures) :
            (futures[i].state = "FINISHED" /\ ~futures[i].yielded) => ENABLED Collect(i)

\* The block of a later-submitted host is complete while an earlier-submitted
\* host's query is still running.
C13_Witness ==
    \E i, k \in 1..Len(futures) :
        /\ k < i
        /\ futures[k].state = "RUNNING"
        /\ \E j \in 1..Len(outfile) :
             outfile[j].run = 1 /\ outfile[j].fut = i /\ outfile[j].part = "sep"

\* ----------------------------------------------------------------- C14
\* C14: the loader produces the hosts in row order, each trimmed of
\* surrounding whitespace; a row whose value is empty or whitespace only
\* contributes no host, so the i-th future is for the i-th non-blank row and
\* every block names the trimmed value of the non-blank row of its future.
C14_LoaderOrderTrimmed ==
    LET loaded == HostsUpTo(ri - 1)
    IN /\ hosts = loaded
       /\ \A k \in 1..Len(hosts) :
            /\ hosts[k] # <<>>
            /\ ~IsSpace(hosts[k][1]) /\ ~IsSpace(hosts[k][Len(hosts[k])])
       /\ futures # <<>> =>
            /\ ri = Len(csv.rows) + 1
            /\ Len(futures) <= Len(loaded)
            /\ \A i \in 1..Len(futures) : futures[i].host = loaded[i]
       /\ \A j \in 1..Len(outfile) :
            (outfile[j].run = 1 /\ outfile[j].part = "delim") =>
               /\ IsDelim(outfile[j])
               /\ outfile[j].fut \in 1..Len(loaded)
               /\ HostOf(outfile[j]) = loaded[outfile[j].fut]

\* A finished run over a padded value, a whitespace-only value and a plain
\* value: two hosts, two blocks.
C14_Witness ==
    /\ Returned
    /\ Len(csv.rows) = 3
    /\ ColumnValue(1) = <<" ", "a", " ">>
    /\ ColumnValue(2) = <<" ">>
    /\ ColumnValue(3) = <<"b">>
    /\ hosts = << <<"a">>, <<"b">> >>
    /\ Cardinality(Delims) = 2

\* ----------------------------------------------------------------- C15
\* The column exists and no row has a non-empty value in it.
NoHostInColumn ==
    /\ argv_len = 4
    /\ ~csv.empty
    /\ \E k \in 1..Len(csv.fieldnames) : csv.fieldnames[k] = column_name
    /\ NonEmptyRows = {}

\* C15: when the column exists but no row has a non-empty value in it, main()
\* returns normally (status 0) without opening the output path: a file already
\* there is left unchanged, no pool is created and no query is spawned.
C15_NoHostsReturnsNormally ==
    NoHostInColumn =>
        /\ OutputUntouched
        /\ futures = <<>> /\ work_queue = <<>> /\ num_threads = 0
        /\ pc = "exited" => exit_code = 0 /\ printed = <<"No hosts found">>

\* ----------------------------------------------------------------- C16
ValidColumn ==
    /\ argv_len = 4
    /\ ~csv.empty
    /\ \E k \in 1..Len(csv.fieldnames) : csv.fieldnames[k] = column_name

\* The program has ended: the output file is not open, no future is queued,
\* running or unreported, every submitted host has its complete block, and a
\* run that returned normally submitted every loaded host.
Terminated ==
    /\ pc = "exited"
    /\ out_state # "open"
    /\ work_queue = <<>>
    /\ \A i \in 1..Len(futures) :
         /\ futures[i].state = "FINISHED" /\ futures[i].yielded
         /\ \E j \in 1..Len(outfile) :
              outfile[j].run = 1 /\ outfile[j].fut = i /\ outfile[j].part = "sep"
    /\ (exit_code = 0 /\ hosts # <<>>) => Len(futures) = Len(hosts)

\* C16: provided every spawned process exits or is cut off by the timeout,
\* every run with a valid column eventually terminates with the block of every
\* submitted host written and the output file closed.
C16_EventuallyTerminates == ValidColumn => <>Terminated

\* A terminated run of three hosts, one of which timed out.
C16_Witness ==
    /\ Terminated
    /\ Returned
    /\ Len(futures) = 3
    /\ \E i \in 1..3 : futures[i].ran.kind = "timeout"

\* ----------------------------------------------------------------- C17
\* C17: in a run started through main() every host given to run_query is
\* non-empty and trimmed, so make_nslookup_cmd never returns None, no result
\* has the status EMPTY_HOSTNAME, and no block has an empty body.
C17_EmptyHostnameUnreachable ==
    /\ \A i \in 1..Len(futures) :
         /\ futures[i].host # <<>>
         /\ ~IsSpace(futures[i].host[1])
         /\ ~IsSpace(futures[i].host[Len(futures[i].host)])
         /\ make_nslookup_cmd(QUERY_CMD, futures[i].host).kind # "none"
         /\ futures[i].result.status # "EMPTY_HOSTNAME"
    /\ cur.status # "EMPTY_HOSTNAME"
    /\ \A j \in 1..Len(outfile) :
         (outfile[j].run = 1 /\ outfile[j].part = "output") => outfile[j].text # <<>>

\* A finished run over an empty, a whitespace-only and a padded value: one
\* query, one block.
C17_Witness ==
    /\ Returned
    /\ \E k, m, n \in 1..Len(csv.rows) :
         /\ ColumnValue(k) = <<>>
         /\ ColumnValue(m) = <<" ">>
         /\ ColumnValue(n) = <<" ", "a", " ">>
    /\ Len(futures) = 1
    /\ futures[1].result.status = "OK"
    /\ Cardinality(Delims) = 1
====
